---- MODULE Spec2Model ----
(***************************************************************************)
(* Model of src/main.py: the /swap endpoint (swap_faces), the worker       *)
(* invoker (face_swap under the retry decorator), the output persistence   *)
(* (save_output_image, enhance_image), the upload checks (allowed_file,    *)
(* validate_file), the normalizer (compress_image), the hasher             *)
(* (get_file_hash) and the process-wide TTLCache.                          *)
(*                                                                         *)
(* swap_faces is a coroutine run by a single event loop.  A request gives  *)
(* up the loop only where it awaits something that suspends: the two       *)
(* UploadFile.read() calls.  "await face_swap(...)" does not suspend:      *)
(* face_swap has no await in its body and client.predict is a blocking     *)
(* call, so everything from compress_image to the response runs while the  *)
(* request holds the loop (variable running).  Wall-clock time advances    *)
(* independently of the loop (action Tick).                                *)
(***************************************************************************)
EXTENDS Integers, Sequences, FiniteSets, TLC

VARIABLES
    req,        \* per request slot: position in swap_faces and its locals
    running,    \* the request holding the event loop, 0 when the loop is free
    clock,      \* time.monotonic(), the timer of the TTLCache
    cache,      \* the TTLCache: entries in least-recently-used order
    outFiles,   \* static/output: unique id -> state of face_swap_<id>.png
    nextId,     \* the next uuid4 to be drawn
    lastPut     \* history: per fingerprint, the last insert into the cache

vars == <<req, running, clock, cache, outFiles, nextId, lastPut>>

----------------------------------------------------------------------------
(* Bounds of the model *)

\* TTLCache(maxsize=100, ...) scaled down to the model's fingerprint universe
CacheCapacity == 2
\* the clock advances in steps of TickStep up to MaxClock
TickStep == 1800
MaxClock == 3600
\* the worker produces at most MaxFiles output images
MaxFiles == 2

(* Program constants *)
ttl == 3600
tries == 3
delay == 2
backoff == 2

Reqs == {1, 2}

----------------------------------------------------------------------------
(* Strings are sequences of characters where the code inspects them *)

UpperChars == <<"A","B","C","D","E","F","G","H","I","J","K","L","M",
                "N","O","P","Q","R","S","T","U","V","W","X","Y","Z">>
LowerChars == <<"a","b","c","d","e","f","g","h","i","j","k","l","m",
                "n","o","p","q","r","s","t","u","v","w","x","y","z">>

LowerChar(c) ==
    IF \E i \in 1..26 : UpperChars[i] = c
    THEN LowerChars[CHOOSE i \in 1..26 : UpperChars[i] = c]
    ELSE c

\* str.lower()
Lower(s) == [i \in 1..Len(s) |-> LowerChar(s[i])]

\* '.' in s
HasDot(s) == \E i \in 1..Len(s) : s[i] = "."

\* s.rsplit('.', 1)[1], for s containing a '.'
RSplitExt(s) ==
    LET last == CHOOSE i \in 1..Len(s) :
                    s[i] = "." /\ \A j \in (i+1)..Len(s) : s[j] # "."
    IN SubSeq(s, last + 1, Len(s))

ALLOWED_EXTENSIONS == { <<"p","n","g">>, <<"j","p","g">>, <<"j","p","e","g">> }

allowed_file(filename) ==
    HasDot(filename) /\ Lower(RSplitExt(filename)) \in ALLOWED_EXTENSIONS

\* s.endswith(suffix)
EndsWith(s, suffix) ==
    Len(s) >= Len(suffix)
    /\ SubSeq(s, Len(s) - Len(suffix) + 1, Len(s)) = suffix

\* mutant: os.path.exists is not consulted
validate_file_ExtensionOnly(exists, path) ==
    \E e \in ALLOWED_EXTENSIONS : EndsWith(Lower(path), <<".">> \o e)

\* validate_file(path): exists is os.path.exists(path)
validate_file(exists, path) ==
    exists /\ \E e \in ALLOWED_EXTENSIONS : EndsWith(Lower(path), <<".">> \o e)

----------------------------------------------------------------------------
(* Uploads: a filename and the bytes; bytes are <<encoding, picture>>.      *)
(* The encodings: "jpg" and "png" are sound images; "jpg_truncated" has a  *)
(* sound header and broken pixel data; "jpg_cmyk" is a sound image in a    *)
(* mode the PNG writer refuses; "bin" is no image at all.                  *)

\* Image.open(temp_file.name) succeeds (line 83): it reads the header only
Decodable(content) == content[1] \in {"jpg", "png", "jpg_truncated", "jpg_cmyk"}

\* img.thumbnail(...) succeeds (line 84): it loads the pixel data
Thumbnailable(content) == content[1] \in {"jpg", "png", "jpg_cmyk"}

\* img.save(temp_output.name, "PNG", ...) and the read-back succeed
\* (lines 86-88)
Saveable(content) == content[1] \in {"jpg", "png"}

\* compress_image: an image that is opened, shrunk and saved comes back
\* re-encoded as PNG; when any of the three raises, the except branch
\* (lines 90-92) returns the bytes unchanged
compress_image(content) ==
    IF Decodable(content) /\ Thumbnailable(content) /\ Saveable(content)
    THEN <<"png", content[2]>>
    ELSE content

\* compress_image's own temporary files: temp_file always (line 80),
\* temp_output once Image.open and thumbnail have succeeded (line 85)
ScratchCreated(content) ==
    IF Decodable(content) /\ Thumbnailable(content) THEN 2 ELSE 1

\* mutant: the finally block forgets temp_output
ScratchUnlinked_InputOnly(content) == 1

\* the finally block (lines 93-97) unlinks each of the two that exists
ScratchUnlinked(content) ==
    IF Decodable(content) /\ Thumbnailable(content) THEN 2 ELSE 1

\* the temporary files compress_image leaves behind
ScratchLeft(content) == ScratchCreated(content) - ScratchUnlinked(content)

\* get_file_hash: sha256 hex digest, injective on the model's byte strings
get_file_hash(content) == <<"sha256", content>>

\* mutant: the two digests are joined in an order that does not depend on
\* which image is the source
CacheKey_Unordered(srcN, dstN) ==
    LET lo == CHOOSE x \in {srcN, dstN} : TRUE
        hi == CHOOSE y \in {srcN, dstN} : y # lo \/ srcN = dstN
    IN <<get_file_hash(lo), ":", get_file_hash(hi)>>

\* f"{get_file_hash(source_content)}:{get_file_hash(dest_content)}"
CacheKey(srcN, dstN) == <<get_file_hash(srcN), ":", get_file_hash(dstN)>>

UploadA      == [filename |-> <<"a",".","p","n","g">>,     content |-> <<"jpg", "A">>]
UploadB      == [filename |-> <<"b",".","J","P","G">>,     content |-> <<"jpg", "B">>]
UploadTxt    == [filename |-> <<"c",".","t","x","t">>,     content |-> <<"jpg", "A">>]
UploadNoName == [filename |-> <<>>,                        content |-> <<"jpg", "B">>]
UploadJunk   == [filename |-> <<"d",".","j","p","e","g">>, content |-> <<"bin", "J">>]
UploadCmyk   == [filename |-> <<"e",".","j","p","g">>,     content |-> <<"jpg_cmyk", "C">>]
UploadTrunc  == [filename |-> <<"f",".","j","p","g">>,     content |-> <<"jpg_truncated", "T">>]

NoUpload == [filename |-> <<>>, content |-> <<>>]

\* the pairs (source_image, dest_image) the requests are drawn from
UploadPairs == { <<UploadA, UploadB>>, <<UploadB, UploadA>>,
                 <<UploadJunk, UploadCmyk>>, <<UploadTxt, UploadB>>,
                 <<UploadA, UploadNoName>> }

\* the pairs that take compress_image through each of its exits
StoragePairs == { <<UploadCmyk, UploadTrunc>>, <<UploadJunk, UploadA>>,
                  <<UploadA, UploadNoName>> }

Keys == { CacheKey(compress_image(p[1].content), compress_image(p[2].content)) :
            p \in UploadPairs \cup StoragePairs }

----------------------------------------------------------------------------
(* The TTLCache (cachetools): a sequence of entries [key, value, expires]  *)
(* kept in least-recently-used order, oldest first.                        *)

KeyIndex(c, k) == CHOOSE i \in 1..Len(c) : c[i].key = k

HasKey(c, k) == \E i \in 1..Len(c) : c[i].key = k

\* mutant: an entry still counts as present at the instant it expires
CacheContains_Inclusive(c, k, now) ==
    \E i \in 1..Len(c) : c[i].key = k /\ now <= c[i].expires

\* TTLCache.__contains__: present and timer() < link.expires
CacheContains(c, k, now) ==
    \E i \in 1..Len(c) : c[i].key = k /\ now < c[i].expires

RemoveKey(c, k) ==
    LET Keep(e) == e.key # k IN SelectSeq(c, Keep)

\* TTLCache.expire(time): drops every entry with not (time < expires)
CacheExpire(c, now) ==
    LET Live(e) == now < e.expires IN SelectSeq(c, Live)

\* mutant: the most recently used entries make room
EvictForRoom_Newest(c) ==
    IF Len(c) + 1 > CacheCapacity THEN SubSeq(c, 1, CacheCapacity - 1) ELSE c

\* Cache.__setitem__'s loop: while currsize + 1 > maxsize: popitem(),
\* popitem removing the least recently used entry
RECURSIVE EvictForRoom(_)
EvictForRoom(c) ==
    IF Len(c) + 1 > CacheCapacity THEN EvictForRoom(Tail(c)) ELSE c

\* mutant: the entry is stored without its time-to-live
CacheSet_NoTtl(c, k, v, now) ==
    LET live == CacheExpire(c, now)
        room == IF HasKey(live, k) THEN live ELSE EvictForRoom(live)
    IN Append(RemoveKey(room, k), [key |-> k, value |-> v, expires |-> now])

\* TTLCache.__setitem__(key, value) at time now
CacheSet(c, k, v, now) ==
    LET live == CacheExpire(c, now)
        room == IF HasKey(live, k) THEN live ELSE EvictForRoom(live)
    IN Append(RemoveKey(room, k), [key |-> k, value |-> v, expires |-> now + ttl])

\* the value TTLCache.__getitem__ returns when the key is live
CacheValue(c, k) == c[KeyIndex(c, k)].value

\* TTLCache.__getitem__ marks the key most recently used (__getlink)
CacheTouch(c, k) ==
    IF HasKey(c, k) THEN Append(RemoveKey(c, k), c[KeyIndex(c, k)]) ELSE c

CacheKeys(c) == { c[i].key : i \in 1..Len(c) }

----------------------------------------------------------------------------
(* Results of face_swap and responses of swap_faces *)

Msg(text) == <<text, 0>>

\* os.path.join(OUTPUT_FOLDER, f"face_swap_{uuid}.png")
OutputPath(id) == <<"static/output/face_swap_<id>.png", id>>

ErrorResult == Msg("Error: <exception>")

\* mutant: the test for an "Error..." result is missing
IsFailureResult_NoErrorPrefix(result) ==
    \/ result = Msg("Invalid input files")
    \/ result = Msg("Failed to save output")

\* result.startswith("Error") or result == "Invalid input files"
\*   or result == "Failed to save output"
IsFailureResult(result) ==
    \/ result[1] = "Error: <exception>"
    \/ result = Msg("Invalid input files")
    \/ result = Msg("Failed to save output")

\* f"{BASE_URL}/{result}"
ResultUrl(result) == <<"BASE_URL/", result>>

\* the retry decorator: one sleep after each failed call but the last,
\* delay * backoff^(i-1) for the i-th
RECURSIVE Pow(_, _)
Pow(b, n) == IF n = 0 THEN 1 ELSE b * Pow(b, n - 1)

RetrySleeps(nRaised) ==
    LET n == IF nRaised < tries - 1 THEN nRaised ELSE tries - 1
    IN [i \in 1..n |-> delay * Pow(backoff, i - 1)]

\* Calls of the decorated function that raise into the retry wrapper: the
\* wrapper calls face_swap(...), which only builds a coroutine object, and
\* the body's "except Exception" returns "Error: ..." instead of raising.
WrapperRaised == 0

\* the worker's behaviour for one invocation: its first `fails` calls raise,
\* the following one returns ret
NoWorker == [fails |-> 0, ret |-> "unused"]
WorkerBehaviours ==
    { [fails |-> 0, ret |-> x] : x \in {"none", "missing", "valid"} }
    \cup { [fails |-> n, ret |-> "valid"] : n \in 2..tries }

----------------------------------------------------------------------------
(* State *)

NoPut == [ref |-> <<>>, at |-> 0 - 1, evicted |-> FALSE, by |-> <<>>]

IdleReq ==
    [pc |-> "idle", src |-> NoUpload, dst |-> NoUpload,
     srcN |-> <<>>, dstN |-> <<>>, key |-> <<>>, hit |-> FALSE,
     tmp |-> FALSE, srcPath |-> <<>>, dstPath |-> <<>>,
     srcOnDisk |-> FALSE, dstOnDisk |-> FALSE, scratch |-> 0,
     worker |-> NoWorker, calls |-> 0, sleeps |-> <<>>,
     fileId |-> 0, result |-> <<>>, status |-> 0, body |-> <<>>,
     \* history, read only by the properties
     comp |-> 0, tmpWrites |-> 0, outBefore |-> 0, saveFailed |-> FALSE,
     enhFailed |-> FALSE, inserted |-> FALSE, stale |-> FALSE, prior |-> NoPut]

Init ==
    /\ req = [r \in Reqs |-> IdleReq]
    /\ running = 0
    /\ clock = 0
    /\ cache = <<>>
    /\ outFiles = <<>>
    /\ nextId = 1
    /\ lastPut = [k \in Keys |-> NoPut]

Set(r, rec) == req' = [req EXCEPT ![r] = rec]

\* the handler returns its response
Finish(r, rec, status, body) ==
    /\ Set(r, [rec EXCEPT !.pc = "done", !.status = status, !.body = body])
    /\ UNCHANGED running

\* history: the requests suspended in their reads while an insert for their
\* own pair of images is made started before that insert
PairKey(q) == CacheKey(compress_image(q.src.content), compress_image(q.dst.content))
MarkStale(q, k) ==
    IF q.pc = "reading" /\ PairKey(q) = k THEN [q EXCEPT !.stale = TRUE] ELSE q


----------------------------------------------------------------------------
(* swap_faces *)

\* not source_image.filename or not dest_image.filename
NoFileSelected(s, d) == s.filename = <<>> \/ d.filename = <<>>

\* mutant: one allowed filename is enough
UploadsAllowed_Either(s, d) == allowed_file(s.filename) \/ allowed_file(d.filename)

\* allowed_file(source_image.filename) and allowed_file(dest_image.filename)
UploadsAllowed(s, d) == allowed_file(s.filename) /\ allowed_file(d.filename)

\* os.path.join(temp_dir, f"source_{uuid}.{filename.rsplit('.', 1)[1]}")
SourceStem == <<"t","m","p","/","s","o","u","r","c","e","_","1">>
DestStem == <<"t","m","p","/","d","e","s","t","_","2">>
\* mutant: the upload's extension is not carried over
TempPath_NoExtension(stem, filename) == stem

TempPath(stem, filename) == stem \o <<".">> \o RSplitExt(filename)

\* mutant: the directory is made with mkdtemp and never removed
TempDirAfterExit_Kept(present) == present

\* leaving "with tempfile.TemporaryDirectory()" by return or by exception
\* removes the directory and the files in it
TempDirAfterExit(present) == FALSE

\* the handler's state once its temporary directory is left
LeaveTempDir(rec) ==
    [rec EXCEPT !.tmp = TempDirAfterExit(@),
                !.srcOnDisk = TempDirAfterExit(@),
                !.dstOnDisk = TempDirAfterExit(@)]

\* mutant: the early return on a cache hit is missing
AfterLookup_AlwaysMiss(found) == "cache_miss"

\* where the handler goes after "if cache_key in cache"
AfterLookup(found) == IF found THEN "cache_hit" ELSE "cache_miss"

\* the handler is entered with the two uploads
Receive(r, s, d) ==
    /\ running = 0
    /\ req[r].pc = "idle"
    /\ Set(r, [IdleReq EXCEPT !.pc = "received", !.src = s, !.dst = d])
    /\ running' = r
    /\ UNCHANGED <<clock, cache, outFiles, nextId, lastPut>>

\* lines 160-164: the two checks of the uploads' filenames
Validate(r) ==
    /\ running = r
    /\ req[r].pc = "received"
    /\ IF NoFileSelected(req[r].src, req[r].dst)
       THEN Finish(r, req[r], 400, <<"error", Msg("No file selected")>>)
       ELSE IF ~UploadsAllowed(req[r].src, req[r].dst)
       THEN Finish(r, req[r], 400, <<"error", Msg("Invalid file format")>>)
       ELSE /\ Set(r, [req[r] EXCEPT !.pc = "validated"])
            /\ UNCHANGED running
    /\ UNCHANGED <<clock, cache, outFiles, nextId, lastPut>>

\* lines 167-168: await source_image.read(), await dest_image.read(): the
\* request suspends and the loop is free until the contents are there
ReadUploads(r) ==
    /\ running = r
    /\ req[r].pc = "validated"
    /\ Set(r, [req[r] EXCEPT !.pc = "reading"])
    /\ running' = 0
    /\ UNCHANGED <<clock, cache, outFiles, nextId, lastPut>>

\* the request resumes; lines 169-170: compress_image on both contents
Normalize(r) ==
    /\ running = 0
    /\ req[r].pc = "reading"
    /\ Set(r, [req[r] EXCEPT
                !.pc = "normalized",
                !.srcN = compress_image(req[r].src.content),
                !.dstN = compress_image(req[r].dst.content),
                !.scratch = ScratchLeft(req[r].src.content)
                            + ScratchLeft(req[r].dst.content),
                !.comp = 2])
    /\ running' = r
    /\ UNCHANGED <<clock, cache, outFiles, nextId, lastPut>>

\* lines 173-176: the cache key and "cache_key in cache"
Lookup(r) ==
    /\ running = r
    /\ req[r].pc = "normalized"
    /\ LET k == CacheKey(req[r].srcN, req[r].dstN)
           found == CacheContains(cache, k, clock)
       IN Set(r, [req[r] EXCEPT !.pc = AfterLookup(found), !.key = k,
                                !.hit = found, !.prior = lastPut[k]])
    /\ UNCHANGED <<running, clock, cache, outFiles, nextId, lastPut>>

\* lines 177-178: cache[cache_key]; a KeyError (the entry expired since
\* the membership test) reaches the handler's except branch
HitRead(r) ==
    /\ running = r
    /\ req[r].pc = "cache_hit"
    /\ IF CacheContains(cache, req[r].key, clock)
       THEN Finish(r, req[r], 200,
                   <<"result_image", ResultUrl(CacheValue(cache, req[r].key))>>)
       ELSE Finish(r, req[r], 500, <<"error", Msg("Unexpected error: <exception>")>>)
    /\ cache' = CacheTouch(cache, req[r].key)
    /\ UNCHANGED <<clock, outFiles, nextId, lastPut>>

\* lines 181-191: the temporary directory and the two files in it
\*   written = TRUE    both files are written
\*   written = FALSE   open or write raises (here for the second file): the
\*                     directory is left and the except branch answers
WriteTemp(r, written) ==
    /\ running = r
    /\ req[r].pc = "cache_miss"
    /\ LET src == [req[r] EXCEPT
                     !.tmp = TRUE, !.tmpWrites = 1, !.srcOnDisk = TRUE,
                     !.srcPath = TempPath(SourceStem, req[r].src.filename),
                     !.dstPath = TempPath(DestStem, req[r].dst.filename)]
       IN IF written
          THEN Set(r, [src EXCEPT !.pc = "invoking", !.tmpWrites = 2,
                                  !.dstOnDisk = TRUE])
          ELSE Set(r, [LeaveTempDir(src) EXCEPT
                          !.pc = "done", !.status = 500,
                          !.body = <<"error", Msg("Unexpected error: <exception>")>>])
    /\ UNCHANGED <<running, clock, cache, outFiles, nextId, lastPut>>

----------------------------------------------------------------------------
(* face_swap, awaited at line 194 *)

\* the retry wrapper calls face_swap once; the coroutine's body starts with
\* validate_file on both paths (lines 127-128)
FaceSwapBegin(r) ==
    /\ running = r
    /\ req[r].pc = "invoking"
    /\ LET ok == /\ validate_file(req[r].srcOnDisk, req[r].srcPath)
                 /\ validate_file(req[r].dstOnDisk, req[r].dstPath)
           base == [req[r] EXCEPT !.sleeps = RetrySleeps(WrapperRaised),
                                  !.outBefore = Cardinality(DOMAIN outFiles)]
       IN IF ok
          THEN Set(r, [base EXCEPT !.pc = "files_ok"])
          ELSE Set(r, [base EXCEPT !.pc = "returned",
                                   !.result = Msg("Invalid input files")])
    /\ UNCHANGED <<running, clock, cache, outFiles, nextId, lastPut>>

\* lines 130-139: Client(...) and client.predict(...) are entered, once; the
\* call is synchronous, so the handler keeps the event loop while it lasts
PredictCall(r) ==
    /\ running = r
    /\ req[r].pc = "files_ok"
    /\ Set(r, [req[r] EXCEPT !.pc = "in_predict", !.calls = @ + 1])
    /\ UNCHANGED <<running, clock, cache, outFiles, nextId, lastPut>>

\* lines 139 and 145-148: the call returns or raises as the worker behaves
Predict(r, w) ==
    /\ running = r
    /\ req[r].pc = "in_predict"
    /\ w.fails = 0 /\ w.ret = "valid" => nextId <= MaxFiles
    /\ LET base == [req[r] EXCEPT !.worker = w]
       IN IF w.fails > 0
          THEN Set(r, [base EXCEPT !.pc = "returned", !.result = ErrorResult])
          ELSE IF w.ret = "valid"
          THEN Set(r, [base EXCEPT !.pc = "predicted"])
          ELSE Set(r, [base EXCEPT !.pc = "returned",
                                   !.result = Msg("Face swap failed")])
    /\ UNCHANGED <<running, clock, cache, outFiles, nextId, lastPut>>

\* lines 140-141, save_output_image up to img.save(output_path, "PNG"):
\*   "ok"        the file is written
\*   "fail"      an exception before or in the write leaves no file
\*   "partial"   img.save raises part-way and the started file stays
SaveOutput(r, outcome) ==
    /\ running = r
    /\ req[r].pc = "predicted"
    /\ LET base == [req[r] EXCEPT !.fileId = nextId]
           failed == [base EXCEPT !.pc = "returned", !.saveFailed = TRUE,
                                  !.result = Msg("Failed to save output")]
       IN CASE outcome = "ok" ->
                 /\ Set(r, [base EXCEPT !.pc = "saved"])
                 /\ outFiles' = Append(outFiles, "complete")
                 /\ nextId' = nextId + 1
            [] outcome = "fail" ->
                 \* no file appears: the drawn name is never seen again
                 /\ Set(r, [failed EXCEPT !.fileId = 0])
                 /\ UNCHANGED <<outFiles, nextId>>
            [] outcome = "partial" ->
                 /\ Set(r, failed)
                 /\ outFiles' = Append(outFiles, "partial")
                 /\ nextId' = nextId + 1
    /\ UNCHANGED <<running, clock, cache, lastPut>>

\* enhance_image(output_path), which logs and swallows its exceptions:
\*   "ok"        the sharpened image replaces the file
\*   "fail"      Image.open or enhance raises, the file is untouched
\*   "partial"   the second img.save raises part-way through the rewrite
Enhance(r, outcome) ==
    /\ running = r
    /\ req[r].pc = "saved"
    /\ outFiles' = [outFiles EXCEPT ![req[r].fileId] =
                        CASE outcome = "ok" -> "complete"
                          [] outcome = "fail" -> @
                          [] outcome = "partial" -> "partial"]
    /\ Set(r, [req[r] EXCEPT !.pc = "returned",
                             !.enhFailed = (outcome # "ok"),
                             !.result = OutputPath(req[r].fileId)])
    /\ UNCHANGED <<running, clock, cache, nextId, lastPut>>

\* lines 195-203: the failure test, the cache insert and the response; the
\* temporary directory is removed on the way out
Respond(r) ==
    /\ running = r
    /\ req[r].pc = "returned"
    /\ IF IsFailureResult(req[r].result)
       THEN /\ Finish(r, LeaveTempDir(req[r]), 500,
                      <<"error", req[r].result>>)
            /\ UNCHANGED <<cache, lastPut>>
       ELSE /\ req' = [q \in Reqs |->
                  IF q = r
                  THEN [LeaveTempDir(req[r]) EXCEPT
                          !.pc = "done", !.inserted = TRUE,
                          !.status = 200,
                          !.body = <<"result_image", ResultUrl(req[r].result)>>]
                  ELSE MarkStale(req[q], req[r].key)]
            /\ UNCHANGED running
            /\ cache' = CacheSet(cache, req[r].key, req[r].result, clock)
            /\ lastPut' = [k \in Keys |->
                  IF k = req[r].key
                  THEN [ref |-> req[r].result, at |-> clock, evicted |-> FALSE,
                        by |-> <<req[r].srcN, req[r].dstN>>]
                  ELSE IF k \in CacheKeys(CacheExpire(cache, clock))
                          /\ k \notin CacheKeys(cache')
                  THEN [lastPut[k] EXCEPT !.ref = <<>>, !.evicted = TRUE]
                  ELSE lastPut[k]]
    /\ UNCHANGED <<clock, outFiles, nextId>>

\* the response is handed to the server and the handler's task ends: the
\* loop is free again
Reset(r) ==
    /\ running = r
    /\ req[r].pc = "done"
    /\ Set(r, IdleReq)
    /\ running' = 0
    /\ UNCHANGED <<clock, cache, outFiles, nextId, lastPut>>

\* time passes
Tick ==
    /\ clock + TickStep <= MaxClock
    /\ clock' = clock + TickStep
    \* the history forgets an insert once its time-to-live has elapsed
    /\ lastPut' = [k \in Keys |->
          IF lastPut[k] # NoPut /\ clock' - lastPut[k].at >= ttl
          THEN NoPut ELSE lastPut[k]]
    /\ UNCHANGED <<req, running, cache, outFiles, nextId>>

Next ==
    \/ \E r \in Reqs, p \in UploadPairs : Receive(r, p[1], p[2])
    \/ \E r \in Reqs : Validate(r)
    \/ \E r \in Reqs : ReadUploads(r)
    \/ \E r \in Reqs : Normalize(r)
    \/ \E r \in Reqs : Lookup(r)
    \/ \E r \in Reqs : HitRead(r)
    \/ \E r \in Reqs, written \in BOOLEAN : WriteTemp(r, written)
    \/ \E r \in Reqs : FaceSwapBegin(r)
    \/ \E r \in Reqs : PredictCall(r)
    \/ \E r \in Reqs, w \in WorkerBehaviours : Predict(r, w)
    \/ \E r \in Reqs, o \in {"ok", "fail", "partial"} : SaveOutput(r, o)
    \/ \E r \in Reqs, o \in {"ok", "fail", "partial"} : Enhance(r, o)
    \/ \E r \in Reqs : Respond(r)
    \/ \E r \in Reqs : Reset(r)
    \/ Tick

Spec == Init /\ [][Next]_vars

----------------------------------------------------------------------------
(* face_swap called on its own, with paths of the caller's choosing *)

DirectPaths ==
    { <<"i","n","/","a",".","p","n","g">>,
      <<"i","n","/","b",".","J","P","G">>,
      <<"i","n","/","c",".","j","p","e","g">>,
      <<"i","n","/","d",".","t","x","t">>,
      <<"i","n","/","e">> }

\* await face_swap(source_path, dest_path): each path may or may not name
\* an existing file
InvokeDirect(r, sp, sOn, dp, dOn) ==
    /\ running = 0
    /\ req[r].pc = "idle"
    /\ Set(r, [IdleReq EXCEPT !.pc = "invoking",
                              !.srcPath = sp, !.srcOnDisk = sOn,
                              !.dstPath = dp, !.dstOnDisk = dOn])
    /\ running' = r
    /\ UNCHANGED <<clock, cache, outFiles, nextId, lastPut>>

\* the caller has the result
ReturnDirect(r) ==
    /\ running = r
    /\ req[r].pc = "returned"
    /\ Set(r, IdleReq)
    /\ running' = 0
    /\ UNCHANGED <<clock, cache, outFiles, nextId, lastPut>>

NextInvoker ==
    \/ \E r \in Reqs, sp \in DirectPaths, dp \in DirectPaths,
          sOn \in BOOLEAN, dOn \in BOOLEAN : InvokeDirect(r, sp, sOn, dp, dOn)
    \/ \E r \in Reqs : FaceSwapBegin(r)
    \/ \E r \in Reqs : PredictCall(r)
    \/ \E r \in Reqs, w \in WorkerBehaviours : Predict(r, w)
    \/ \E r \in Reqs, o \in {"ok", "fail", "partial"} : SaveOutput(r, o)
    \/ \E r \in Reqs, o \in {"ok", "fail", "partial"} : Enhance(r, o)
    \/ \E r \in Reqs : ReturnDirect(r)

SpecInvoker == Init /\ [][NextInvoker]_vars

----------------------------------------------------------------------------
(* swap_faces on uploads that fail at each point of compress_image *)

NextStorage ==
    \/ \E r \in Reqs, p \in StoragePairs : Receive(r, p[1], p[2])
    \/ \E r \in Reqs : Validate(r)
    \/ \E r \in Reqs : ReadUploads(r)
    \/ \E r \in Reqs : Normalize(r)
    \/ \E r \in Reqs : Lookup(r)
    \/ \E r \in Reqs : HitRead(r)
    \/ \E r \in Reqs, written \in BOOLEAN : WriteTemp(r, written)
    \/ \E r \in Reqs : FaceSwapBegin(r)
    \/ \E r \in Reqs : PredictCall(r)
    \/ \E r \in Reqs, w \in WorkerBehaviours : Predict(r, w)
    \/ \E r \in Reqs, o \in {"ok", "fail", "partial"} : SaveOutput(r, o)
    \/ \E r \in Reqs, o \in {"ok", "fail", "partial"} : Enhance(r, o)
    \/ \E r \in Reqs : Respond(r)
    \/ \E r \in Reqs : Reset(r)
    \/ Tick

SpecStorage == Init /\ [][NextStorage]_vars

----------------------------------------------------------------------------
(* Properties *)

Done(r) == req[r].pc = "done"

\* the remote call was made and raised
RemoteRaised(q) == q.calls > 0 /\ q.worker.fails > 0

\* the remote call returned without raising, with no usable file
RemoteReturnedNothing(q) ==
    q.calls > 0 /\ q.worker.fails = 0 /\ q.worker.ret \in {"none", "missing"}

\* an entry the cache would return now
LiveEntries == { i \in 1..Len(cache) : clock < cache[i].expires }

\* C1: every value held by a live cache entry is the path of an output file
\* that exists and was written completely.
C1_CachedArtifactsComplete ==
    \A i \in LiveEntries :
        \E id \in DOMAIN outFiles :
            cache[i].value = OutputPath(id) /\ outFiles[id] = "complete"

\* C2: an invocation whose worker raises on its first two calls and succeeds
\* on the third ends in success after exactly 3 remote calls and two backoff
\* waits of 2 and 4 time-units.
C2_RetryTwiceThenSuccess ==
    \A r \in Reqs :
        (req[r].pc \in {"returned", "done"} /\ req[r].calls > 0
            /\ req[r].worker.fails = 2)
        => /\ req[r].result = OutputPath(req[r].fileId)
           /\ req[r].calls = 3
           /\ req[r].sleeps = <<2, 4>>

\* C3: when the remote call returns null or a path that does not exist, the
\* invocation fails after that single call and the request responds 500
\* without inserting into the cache.
C3_MissingResultIs500 ==
    \A r \in Reqs :
        (Done(r) /\ RemoteReturnedNothing(req[r]))
        => /\ req[r].calls = 1
           /\ req[r].status = 500
           /\ req[r].body[1] = "error"
           /\ ~req[r].inserted

\* C4: a step of a request that does not complete it leaves the cache as it
\* is, and the completing step of a request whose invocation failed (the
\* remote call raised, or the result could not be saved) responds 500 with
\* an error payload and leaves the cache as it is.
C4_FailedInvocationKeepsCache ==
    [][\A r \in Reqs :
         /\ (req'[r].pc # req[r].pc /\ req'[r].pc # "done") => cache' = cache
         /\ (req[r].pc = "returned" /\ req'[r].pc = "done"
                /\ (RemoteRaised(req[r]) \/ req[r].saveFailed))
            => /\ req'[r].status = 500
               /\ req'[r].body[1] = "error"
               /\ ~req'[r].inserted
               /\ cache' = cache]_vars

C4_Witness ==
    \E r \in Reqs :
        /\ Done(r) /\ RemoteRaised(req[r]) /\ req[r].status = 500
        /\ LiveEntries # {}

\* C5: a request that found its fingerprint in the cache makes no remote
\* call and writes no temporary source/destination file.
C5_HitNeverInvokes ==
    \A r \in Reqs :
        req[r].hit => /\ req[r].calls = 0
                      /\ req[r].tmpWrites = 0
                      /\ ~req[r].tmp
                      /\ req[r].pc \in {"cache_hit", "done"}

C5_Witness ==
    \E r \in Reqs : Done(r) /\ req[r].hit /\ req[r].status = 200

\* the request looked its pair up after an earlier request had inserted a
\* reference for the same pair, started after that insert, and less than
\* the time-to-live has passed since
RepeatsWithinTtl(r) ==
    /\ Done(r)
    /\ req[r].key # <<>>
    /\ ~req[r].stale
    /\ req[r].prior # NoPut
    /\ clock - req[r].prior.at < 3600

SameAnswerNoWorker(r) ==
    /\ req[r].status = 200
    /\ req[r].body = <<"result_image", ResultUrl(req[r].prior.ref)>>
    /\ req[r].calls = 0

\* C6 as stated: a repeat of a pair within the time-to-live of an earlier
\* 200 answers 200 with the same reference and makes no remote call.
C6_Original == \A r \in Reqs : RepeatsWithinTtl(r) => SameAnswerNoWorker(r)

\* C6, amended: the same, provided the entry has not been evicted for
\* capacity since it was inserted.
C6_RepeatHitsUnlessEvicted ==
    \A r \in Reqs :
        (RepeatsWithinTtl(r) /\ ~req[r].prior.evicted) => SameAnswerNoWorker(r)

C6_Witness ==
    \E r \in Reqs :
        /\ RepeatsWithinTtl(r) /\ ~req[r].prior.evicted
        /\ clock > req[r].prior.at
        /\ req[r].hit /\ req[r].status = 200

\* C7: after an insert of r under f, a lookup of f finds r while less than
\* the time-to-live has elapsed since the insert and f has not been evicted;
\* otherwise (never inserted, time-to-live elapsed, evicted) it reports
\* absent.
C7_CacheSoundness ==
    \A k \in Keys :
        IF lastPut[k] # NoPut /\ ~lastPut[k].evicted /\ clock - lastPut[k].at < 3600
        THEN CacheContains(cache, k, clock) /\ CacheValue(cache, k) = lastPut[k].ref
        ELSE ~CacheContains(cache, k, clock)

C7_Witness ==
    /\ \E k \in Keys : lastPut[k] # NoPut /\ lastPut[k].evicted
    /\ \E k \in Keys : /\ lastPut[k] # NoPut /\ ~lastPut[k].evicted
                       /\ clock > lastPut[k].at
                       /\ CacheContains(cache, k, clock)
    /\ \E i \in 1..Len(cache) : i \notin LiveEntries

\* an upload the endpoint must reject: no filename, or the part after the
\* last '.' is not png, jpg or jpeg in any letter case
BadName(name) ==
    \/ name = <<>>
    \/ ~\E i \in 1..Len(name) :
            /\ name[i] = "."
            /\ \A j \in (i+1)..Len(name) : name[j] # "."
            /\ Lower(SubSeq(name, i+1, Len(name)))
                 \in { <<"p","n","g">>, <<"j","p","g">>, <<"j","p","e","g">> }

\* C8: a request with a bad upload is answered 400 with an error payload by
\* its first step after being received; until then nothing was normalized,
\* no remote call was made, and the cache and the output area are unchanged.
C8_BadUploadRejected ==
    [][\A r \in Reqs :
         (req'[r].pc # req[r].pc /\ req[r].pc \in {"idle", "received"}
            /\ (BadName(req'[r].src.filename) \/ BadName(req'[r].dst.filename)))
         => /\ req'[r].pc \in {"received", "done"}
            /\ req[r].pc = "received" => req'[r].pc = "done"
            /\ req'[r].pc = "done"
               => req'[r].status = 400 /\ req'[r].body[1] = "error"
            /\ req'[r].comp = 0
            /\ req'[r].calls = 0
            /\ cache' = cache
            /\ outFiles' = outFiles]_vars

C8_Witness ==
    \E r \in Reqs :
        /\ Done(r) /\ req[r].status = 400
        /\ ~BadName(req[r].src.filename) /\ BadName(req[r].dst.filename)
        /\ LiveEntries # {}

\* C9: when the invoker returns, the output area holds exactly one file
\* more than before on success and the same files as before on every
\* failure (invalid input, remote call raising or returning nothing,
\* failure while saving or sharpening), none of them partially written.
C9_OutputAreaCount ==
    \A r \in Reqs :
        req[r].pc = "returned"
        => IF req[r].result = OutputPath(req[r].fileId) /\ ~req[r].enhFailed
           THEN /\ Len(outFiles) = req[r].outBefore + 1
                /\ outFiles[req[r].fileId] = "complete"
           ELSE Len(outFiles) = req[r].outBefore

BetweenMissAndInsert ==
    {"cache_miss", "invoking", "files_ok", "in_predict", "predicted", "saved",
     "returned"}

\* C10: two requests for the same uncached fingerprint can interleave so
\* that the second runs its lookup after the first has missed and before
\* the first has inserted. The first suspends nowhere in that stretch but,
\* by the scheduling model, in its remote worker call; so while the first
\* is inside that call, a second request for the same fingerprint whose
\* uploads have been read can resume and go on to its own lookup.
C10_SecondCanLookUp ==
    \A r1 \in Reqs, r2 \in Reqs :
        (r1 # r2 /\ req[r1].pc = "in_predict"
            /\ req[r2].pc = "reading" /\ PairKey(req[r2]) = req[r1].key)
        => ENABLED Normalize(r2)

\* the converse, which the code satisfies: while a request is between its
\* cache miss and its cache insert no other request takes a step, so none
\* runs its lookup there
C10_NoStepBetweenMissAndInsert ==
    [][\A r1 \in Reqs, r2 \in Reqs :
          (r1 # r2 /\ req[r1].pc \in BetweenMissAndInsert)
          => /\ req'[r2].pc = req[r2].pc
             /\ req'[r2].key = req[r2].key
             /\ req'[r2].calls = req[r2].calls]_vars

\* and two requests are never both between miss and insert, whatever their
\* fingerprints: the worker is never invoked for a fingerprint while another
\* request for it is in flight past its lookup
C10_NeverTwoBetweenMissAndInsert ==
    \A r1 \in Reqs, r2 \in Reqs :
        (r1 # r2 /\ req[r1].pc \in BetweenMissAndInsert)
        => req[r2].pc \in {"idle", "reading"}

\* C11: while one request is inside its remote worker call, other requests
\* can make progress: a request can be started on a free slot, and a request
\* whose uploads have been read can resume, so that a second request can
\* start and complete between the start and the return of that call.
InRemoteCall(r) == req[r].pc = "in_predict"

C11_OthersProgressDuringCall ==
    \A r1 \in Reqs, r2 \in Reqs :
        (r1 # r2 /\ InRemoteCall(r1)) =>
            /\ req[r2].pc = "idle" =>
                 ENABLED (\E p \in UploadPairs : Receive(r2, p[1], p[2]))
            /\ req[r2].pc = "reading" => ENABLED Normalize(r2)

\* the converse, which the code satisfies: between the start and the return
\* of a request's remote call no other request takes a step
C11_NoStepDuringCall ==
    [][\A r1 \in Reqs, r2 \in Reqs :
          (r1 # r2 /\ InRemoteCall(r1)) => req'[r2] = req[r2]]_vars

\* C12: calling the invoker with a source or destination path that does
\* not exist, or that lacks a .png/.jpg/.jpeg extension, fails at once as
\* "Invalid input files", with no remote call attempted and no backoff wait.
PastPathCheck(r) ==
    req[r].pc \in {"files_ok", "in_predict", "predicted", "saved", "returned"}

BadInvokerInput(r) ==
    \/ ~req[r].srcOnDisk \/ ~req[r].dstOnDisk
    \/ BadName(req[r].srcPath) \/ BadName(req[r].dstPath)

C12_BadPathFailsFast ==
    \A r \in Reqs :
        (PastPathCheck(r) /\ BadInvokerInput(r)) =>
            /\ req[r].pc = "returned"
            /\ req[r].result = Msg("Invalid input files")
            /\ req[r].calls = 0
            /\ req[r].sleeps = <<>>
            /\ req[r].worker = NoWorker

\* the invoker has returned for a missing source and for a destination
\* without an image extension
C12_Witness ==
    \E r \in Reqs :
        /\ req[r].pc = "returned"
        /\ req[r].result = Msg("Invalid input files")
        /\ \/ ~req[r].srcOnDisk /\ ~BadName(req[r].srcPath)
           \/ req[r].srcOnDisk /\ req[r].dstOnDisk /\ BadName(req[r].dstPath)

\* C13: when an upload's bytes are not a decodable image, normalization
\* fails and the request ends with an error response: the bytes are not
\* hashed into a cache key and the worker is not invoked with them.
HasUndecodableUpload(r) ==
    /\ req[r].comp > 0
    /\ ~Decodable(req[r].src.content) \/ ~Decodable(req[r].dst.content)

C13_UndecodableUploadRejected ==
    \A r \in Reqs :
        HasUndecodableUpload(r) =>
            /\ req[r].pc \in {"normalized", "done"}
            /\ Done(r) => req[r].status # 200 /\ req[r].body[1] = "error"
            /\ req[r].key = <<>>
            /\ req[r].calls = 0
            /\ ~req[r].inserted

\* C14: when a request has ended, whatever its status and exit path, its
\* temporary directory with the source_ and dest_ files is gone and
\* compress_image has left none of its temporary files behind.
C14_TransientStorageReleased ==
    \A r \in Reqs :
        /\ req[r].scratch = 0
        /\ (Done(r) \/ req[r].pc = "idle") =>
              ~req[r].tmp /\ ~req[r].srcOnDisk /\ ~req[r].dstOnDisk

\* a request has ended by an exception raised inside the temporary
\* directory's block, after normalizing an upload whose PNG save raised and
\* one whose thumbnail raised
C14_Witness ==
    \E r \in Reqs :
        /\ Done(r)
        /\ req[r].src = UploadCmyk /\ req[r].dst = UploadTrunc
        /\ ScratchCreated(req[r].src.content) = 2
        /\ ScratchCreated(req[r].dst.content) = 1
        /\ req[r].srcN = req[r].src.content
        /\ req[r].comp = 2
        /\ req[r].tmpWrites = 1
        /\ req[r].status = 500
        /\ req[r].body = <<"error", Msg("Unexpected error: <exception>")>>

\* a request has ended with 200 after its worker call
C14_WitnessSuccess ==
    \E r \in Reqs : Done(r) /\ req[r].tmpWrites = 2 /\ req[r].status = 200

\* C15: the cache key is a deterministic, order-sensitive function of the
\* two normalized images: key(A,B) differs from key(B,A) whenever A # B, and
\* a request that hits the cache hits an entry inserted for its own ordered
\* pair, never one inserted for the swapped pair.
NormalizedPairs ==
    { <<compress_image(p[1].content), compress_image(p[2].content)>> :
        p \in UploadPairs }

C15_OrderSensitiveFingerprint ==
    /\ \A p \in NormalizedPairs :
          /\ CacheKey(p[1], p[2]) = CacheKey(p[1], p[2])
          /\ p[1] # p[2] => CacheKey(p[1], p[2]) # CacheKey(p[2], p[1])
    /\ \A r \in Reqs :
          req[r].hit => req[r].prior.by = <<req[r].srcN, req[r].dstN>>

\* a request misses while the entry inserted for the swapped pair is live
C15_Witness ==
    \E r \in Reqs :
        /\ req[r].pc = "cache_miss"
        /\ req[r].srcN # req[r].dstN
        /\ CacheContains(cache, CacheKey(req[r].dstN, req[r].srcN), clock)

\* C16 as stated: the cache never holds more than its capacity; an insert
\* of a new key into a full cache removes exactly one entry, an expired one
\* if there is any and the least recently used one otherwise, and then
\* inserts; an insert under a key already present removes no other entry.
InsertStep(r) == ~req[r].inserted /\ req'[r].inserted

IsExpired(e) == ~(clock < e.expires)

C16_Original ==
    [][/\ Len(cache') <= CacheCapacity
       /\ \A r \in Reqs :
            InsertStep(r) =>
              LET k == req[r].key
                  anyExpired == \E i \in 1..Len(cache) : IsExpired(cache[i])
              IN IF ~HasKey(cache, k)
                 THEN Len(cache) = CacheCapacity =>
                        /\ Len(cache') = CacheCapacity
                        /\ \E i \in 1..Len(cache) :
                             /\ CacheKeys(cache')
                                  = (CacheKeys(cache) \ {cache[i].key}) \cup {k}
                             /\ IF anyExpired THEN IsExpired(cache[i]) ELSE i = 1
                 ELSE CacheKeys(cache') = CacheKeys(cache)]_vars

\* C16, amended: the cache never holds more than its capacity; an insert
\* first drops every expired entry; if the key is new and the cache is still
\* full it then removes exactly one entry, the least recently used, and
\* inserts; an insert under a key that is present and live overwrites
\* without removing any other live entry. The new entry is the most
\* recently used and expires one time-to-live after the insert.
C16_CapacityAndEviction ==
    [][/\ Len(cache') <= CacheCapacity
       /\ \A r \in Reqs :
            InsertStep(r) =>
              LET k == req[r].key
                  NotExpired(e) == ~IsExpired(e)
                  live == SelectSeq(cache, NotExpired)
                  kept == SubSeq(cache', 1, Len(cache') - 1)
              IN /\ cache' # <<>>
                 /\ cache'[Len(cache')] =
                      [key |-> k, value |-> req[r].result, expires |-> clock + ttl]
                 /\ kept = IF ~HasKey(live, k) /\ Len(live) = CacheCapacity
                           THEN Tail(live)
                           ELSE RemoveKey(live, k)]_vars

\* an insert has removed a live entry from a full cache, and the cache is
\* full again
C16_Witness ==
    /\ Len(cache) = CacheCapacity
    /\ \E k \in Keys : lastPut[k].evicted
    /\ \E r \in Reqs : Done(r) /\ req[r].inserted

\* C17: a request whose membership test found its key answers 200 with the
\* reference stored under that key, also when time passes between the test
\* and the read of the entry; it never ends in 500 "Unexpected error".
C17_HitAlwaysAnswers200 ==
    \A r \in Reqs :
        (Done(r) /\ req[r].hit) =>
            /\ req[r].status = 200
            /\ req[r].body = <<"result_image", ResultUrl(req[r].prior.ref)>>

\* C18: every request that passes the upload validation and misses the
\* cache calls the invoker with two paths that exist in its temporary
\* directory and carry an extension validate_file accepts, so no request
\* ever gets "Invalid input files".
C18_InvokerPreconditionsMet ==
    \A r \in Reqs :
        /\ req[r].pc = "invoking" =>
              /\ req[r].tmp /\ req[r].srcOnDisk /\ req[r].dstOnDisk
              /\ ~BadName(req[r].srcPath) /\ ~BadName(req[r].dstPath)
              /\ validate_file(req[r].srcOnDisk, req[r].srcPath)
              /\ validate_file(req[r].dstOnDisk, req[r].dstPath)
        /\ req[r].result # Msg("Invalid input files")
        /\ Done(r) => req[r].body # <<"error", Msg("Invalid input files")>>

\* the invoker has accepted the paths of a request whose upload has an
\* upper-case extension
C18_Witness ==
    \E r \in Reqs :
        /\ req[r].pc = "files_ok"
        /\ req[r].src = UploadB
        /\ req[r].srcPath = SourceStem \o <<".", "J", "P", "G">>

\* C19: every request follows the state machine Received, Validated,
\* Normalized, then CacheHit and Done, or CacheMiss, Invoking and Done or
\* Failed; it ends with exactly one response, of status 200, 400 or 500;
\* the cache is written at most once per request and only on the step from
\* Invoking to Done.
\* Received is "received"; Validated is "validated" and "reading"; Invoking
\* is "invoking" to "returned"; Done is "done" with 200 and Failed is "done"
\* with 400 or 500. A failed validation ends in Failed from Received, and a
\* failed write of the temporary files in Failed from CacheMiss.
MachineEdges ==
    { <<"idle", "received">>, <<"received", "validated">>, <<"received", "done">>,
      <<"validated", "reading">>, <<"reading", "normalized">>,
      <<"normalized", "cache_hit">>, <<"normalized", "cache_miss">>,
      <<"cache_hit", "done">>, <<"cache_miss", "invoking">>,
      <<"cache_miss", "done">>, <<"invoking", "files_ok">>,
      <<"invoking", "returned">>, <<"files_ok", "in_predict">>,
      <<"in_predict", "predicted">>, <<"in_predict", "returned">>,
      <<"predicted", "saved">>, <<"predicted", "returned">>,
      <<"saved", "returned">>, <<"returned", "done">>, <<"done", "idle">> }

CacheEntries(c) == { c[i] : i \in 1..Len(c) }

\* the order of the steps, the single response and the single cache write
FollowsMachine(r) ==
    LET a == req[r].pc
        b == req'[r].pc
    IN /\ a # b => <<a, b>> \in MachineEdges
       /\ (a # "done" /\ b = "done") => req'[r].status \in {200, 400, 500}
       /\ (a = "done" /\ b = "done") =>
             req'[r].status = req[r].status /\ req'[r].body = req[r].body
       /\ b \notin {"done"} => req'[r].status = 0 /\ req'[r].body = <<>>
       /\ (a = "received" /\ b = "done") => req'[r].status = 400
       /\ (a = "cache_miss" /\ b = "done") => req'[r].status = 500
       /\ req[r].inserted => req'[r].inserted \/ b = "idle"

CacheWrittenOnlyOnSuccess ==
    CacheEntries(cache') # CacheEntries(cache) =>
        \E r \in Reqs : /\ req[r].pc = "returned" /\ req'[r].pc = "done"
                         /\ req'[r].status = 200
                         /\ ~req[r].inserted /\ req'[r].inserted

\* CacheHit is followed by Done: the hit is answered 200
HitEndsDone(r) ==
    (req[r].pc = "cache_hit" /\ req'[r].pc = "done") => req'[r].status = 200

C19_StateMachine ==
    [][/\ \A r \in Reqs : FollowsMachine(r) /\ HitEndsDone(r)
       /\ CacheWrittenOnlyOnSuccess]_vars

\* what the code does satisfy: all of the above but the answer to a hit
C19_MachineButHit ==
    [][/\ \A r \in Reqs : FollowsMachine(r)
       /\ CacheWrittenOnlyOnSuccess]_vars

\* and no request is ever stuck: the one holding the event loop can take
\* its next step, and one whose uploads are read resumes once the loop is
\* free; with the steps above running along an acyclic graph, every request
\* that is scheduled fairly ends
C19_NoRequestStuck ==
    \A r \in Reqs :
        /\ req[r].pc \notin {"idle", "reading"} =>
              /\ running = r
              /\ ENABLED (\/ Validate(r) \/ ReadUploads(r) \/ Lookup(r)
                          \/ HitRead(r) \/ FaceSwapBegin(r) \/ PredictCall(r)
                          \/ Respond(r) \/ Reset(r)
                          \/ \E w \in BOOLEAN : WriteTemp(r, w)
                          \/ \E w \in WorkerBehaviours : Predict(r, w)
                          \/ \E o \in {"ok", "fail", "partial"} :
                                SaveOutput(r, o) \/ Enhance(r, o))
        /\ (req[r].pc = "reading" /\ running = 0) => ENABLED Normalize(r)

====
